---------------------------- MODULE Spec2Model ----------------------------
(***************************************************************************)
(* Model of the mirror simulation classes of wepPhoSim:                    *)
(*   MirrorSim (src/wepPhoSim/MirrorSim.py) and M2Sim (src/wepPhoSim/      *)
(*   M2Sim.py).                                                            *)
(*                                                                         *)
(* Floating point numbers are modelled as exact rationals <<n, d>> with    *)
(* d > 0 and gcd(n, d) = 1; rounding is not modelled.  A 2-D numpy array   *)
(* is a sequence of rows, each row a sequence of rationals.  Python's      *)
(* 0-based indices are kept in the definitions that index arrays.          *)
(***************************************************************************)
EXTENDS Integers, Sequences, FiniteSets, TLC

VARIABLES RiInM, RinM, surf, mirrorDataDir,   \* fields of the mirror object
          pc,        \* position inside the running method, "idle" between calls
          call,      \* the running / last call: method name and arguments
          ret,       \* outcome of the last finished call
          trace,     \* steps the running / last call has performed, in order
          jj, ii,    \* loop indices of __gridSampInMnInZemax
          content,   \* header and node lines accumulated by __gridSampInMnInZemax
          consulted, \* nodes <<jj, ii>> at which the interpolant Ff was evaluated
          disk,      \* the residue map file: Absent, or File(lines)
          files      \* what the data files under the data directory hold

vars == <<RiInM, RinM, surf, mirrorDataDir, pc, call, ret, trace, jj, ii,
          content, consulted, disk, files>>

objVars == <<RiInM, RinM, surf, mirrorDataDir>>
gridVars == <<jj, ii, content, consulted, disk>>

-----------------------------------------------------------------------------
(* Bounds of the model *)

\* longest LUT ruler (number of tabulated zenith angles)
MaxCols == 3
\* largest logical grid size nx, ny handed to the grid resampler
MaxGrid == 3
\* number of sample points a well-formed FEA table of the model holds
NumSamplePoints == 2

-----------------------------------------------------------------------------
(* Exact rational arithmetic standing for Python float arithmetic *)

Abs(n) == IF n < 0 THEN -n ELSE n

RECURSIVE GCD(_, _)
GCD(a, b) == IF b = 0 THEN a ELSE GCD(b, a % b)

\* the rational n/d in lowest terms with a positive denominator
Rat(n, d) ==
    LET s == IF d < 0 THEN -1 ELSE 1
        g == GCD(Abs(n), Abs(d))
    IN  <<(s * n) \div g, (s * d) \div g>>

R(n) == <<n, 1>>

RAdd(a, b) ==
    LET g == GCD(a[2], b[2])
        l == (a[2] \div g) * b[2]
    IN  Rat(a[1] * (l \div a[2]) + b[1] * (l \div b[2]), l)

RNeg(a) == <<-a[1], a[2]>>
RSub(a, b) == RAdd(a, RNeg(b))

RMul(a, b) ==
    LET g1 == GCD(Abs(a[1]), b[2])
        g2 == GCD(Abs(b[1]), a[2])
    IN  Rat((a[1] \div g1) * (b[1] \div g2), (a[2] \div g2) * (b[2] \div g1))

\* b is not zero
RDiv(a, b) == RMul(a, Rat(b[2], b[1]))

RLt(a, b) == a[1] * b[2] < b[1] * a[2]
RLe(a, b) == a[1] * b[2] <= b[1] * a[2]
RMin(a, b) == IF RLt(b, a) THEN b ELSE a

\* elementwise operations on 1-D arrays
VScale(w, v) == [k \in 1..Len(v) |-> RMul(w, v[k])]
VAdd(u, v) == [k \in 1..Len(u) |-> RAdd(u[k], v[k])]
VSub(u, v) == [k \in 1..Len(u) |-> RSub(u[k], v[k])]

-----------------------------------------------------------------------------
(* numpy indexing *)

NRows(a) == Len(a)
NCols(a) == IF Len(a) = 0 THEN 0 ELSE Len(a[1])

\* a[r, :] with r counted from 0
RowAt(a, r) == a[r + 1]
\* a[first:, c] with first and c counted from 0
ColFrom(a, first, c) == [k \in 1..(Len(a) - first) |-> a[k + first][c + 1]]
\* a[:, c]
ColAt(a, c) == ColFrom(a, 0, c)

None == "None"
\* the surf field: None, or an array z
NoSurf == [none |-> TRUE, z |-> <<>>]
Array(z) == [none |-> FALSE, z |-> z]
NoRet == [kind |-> "none"]

\* a path of the file system: no file there, or a file holding these lines
Absent == [exists |-> FALSE, lines |-> <<>>]
File(lines) == [exists |-> TRUE, lines |-> lines]
Ok(v) == [kind |-> "ok", value |-> v]
Raise(e) == [kind |-> e]

-----------------------------------------------------------------------------
(* MirrorSim.getLUTforce *)

\* raise ValueError("The degee order in LUT is incorrect.")
MalformedTableError == "ValueError"

\* np.diff(ruler)
Diff(ruler) == [k \in 1..(Len(ruler) - 1) |-> RSub(ruler[k + 1], ruler[k])]

\* np.any(stepList <= 0)
AnyNegative(stepList) == \E k \in 1..Len(stepList) : RLt(stepList[k], R(0))
AnyNonPositive(stepList) == \E k \in 1..Len(stepList) : RLe(stepList[k], R(0))

\* ruler.max(), ruler.min()
RulerMax(ruler) == CHOOSE m \in {ruler[k] : k \in 1..Len(ruler)} :
                       \A k \in 1..Len(ruler) : RLe(ruler[k], m)
RulerMin(ruler) == CHOOSE m \in {ruler[k] : k \in 1..Len(ruler)} :
                       \A k \in 1..Len(ruler) : RLe(m, ruler[k])

\* np.where(ruler <= zangleInDeg)[0][-1], a 0-based index
LowerIndexFirst(ruler, zangleInDeg) ==
    CHOOSE p \in 0..(Len(ruler) - 1) :
        /\ RLe(ruler[p + 1], zangleInDeg)
        /\ \A q \in 0..(Len(ruler) - 1) : RLe(ruler[q + 1], zangleInDeg) => p <= q
LowerIndex(ruler, zangleInDeg) ==
    CHOOSE p \in 0..(Len(ruler) - 1) :
        /\ RLe(ruler[p + 1], zangleInDeg)
        /\ \A q \in 0..(Len(ruler) - 1) : RLe(ruler[q + 1], zangleInDeg) => q <= p

\* w2 = (zangleInDeg - ruler[p1]) / stepList[p1] and w1 = 1 - w2
Weight2(ruler, stepList, zangleInDeg) ==
    LET p1 == LowerIndex(ruler, zangleInDeg)
    IN  RDiv(RSub(zangleInDeg, ruler[p1 + 1]), stepList[p1 + 1])
Weight1(ruler, stepList, zangleInDeg) ==
    RSub(R(1), Weight2(ruler, stepList, zangleInDeg))

\* the else branch: linear approximation between columns p1 and p2
InterpolateSwapped(lut, ruler, stepList, zangleInDeg) ==
    LET p1 == LowerIndex(ruler, zangleInDeg)
        p2 == p1 + 1
        w2 == RDiv(RSub(zangleInDeg, ruler[p1 + 1]), stepList[p1 + 1])
        w1 == RSub(R(1), w2)
    IN  VAdd(VScale(w2, ColFrom(lut, 1, p1)), VScale(w1, ColFrom(lut, 1, p2)))
InterpolateUnitStep(lut, ruler, stepList, zangleInDeg) ==
    LET p1 == LowerIndex(ruler, zangleInDeg)
        p2 == p1 + 1
        w2 == RSub(zangleInDeg, ruler[p1 + 1])
        w1 == RSub(R(1), w2)
    IN  VAdd(VScale(w1, ColFrom(lut, 1, p1)), VScale(w2, ColFrom(lut, 1, p2)))
Interpolate(lut, ruler, stepList, zangleInDeg) ==
    LET p1 == LowerIndex(ruler, zangleInDeg)
        p2 == p1 + 1
        w2 == Weight2(ruler, stepList, zangleInDeg)
        w1 == Weight1(ruler, stepList, zangleInDeg)
    IN  VAdd(VScale(w1, ColFrom(lut, 1, p1)), VScale(w2, ColFrom(lut, 1, p2)))

\* the outcome of getLUTforce on the table lut read from the LUT file
LUTforceSwappedClamp(lut, zangleInDeg) ==
    LET ruler == RowAt(lut, 0)
        stepList == Diff(ruler)
    IN  IF AnyNonPositive(stepList)
            THEN Raise(MalformedTableError)
        ELSE IF RLe(RulerMax(ruler), zangleInDeg)
            THEN Ok(ColFrom(lut, 1, 0))
        ELSE IF RLe(zangleInDeg, RulerMin(ruler))
            THEN Ok(ColFrom(lut, 1, Len(ruler) - 1))
        ELSE Ok(Interpolate(lut, ruler, stepList, zangleInDeg))
LUTforce(lut, zangleInDeg) ==
    LET ruler == RowAt(lut, 0)
        stepList == Diff(ruler)
    IN  IF AnyNonPositive(stepList)
            THEN Raise(MalformedTableError)
        ELSE IF RLe(RulerMax(ruler), zangleInDeg)
            THEN Ok(ColFrom(lut, 1, Len(ruler) - 1))
        ELSE IF RLe(zangleInDeg, RulerMin(ruler))
            THEN Ok(ColFrom(lut, 1, 0))
        ELSE Ok(Interpolate(lut, ruler, stepList, zangleInDeg))


-----------------------------------------------------------------------------
(* M2Sim.getActForce, getPrintthz, getTempCorr *)

\* np.cos and np.sin at the angles of the model: 0, atan(3/4), atan(4/3), pi/2
ZenithAngles == {"0", "atan(3/4)", "atan(4/3)", "pi/2"}
Cos(t) == CASE t = "0" -> R(1) [] t = "atan(3/4)" -> Rat(4, 5)
            [] t = "atan(4/3)" -> Rat(3, 5) [] t = "pi/2" -> R(0)
Sin(t) == CASE t = "0" -> R(0) [] t = "atan(3/4)" -> Rat(3, 5)
            [] t = "atan(4/3)" -> Rat(4, 5) [] t = "pi/2" -> R(1)

\* data[:, c]: an IndexError when the table has no column c
HasCol(data, c) == c < NCols(data)

\* zdz * cos(angle) + hdz * sin(angle)
Project(zdz, hdz, angle) == VAdd(VScale(Cos(angle), zdz), VScale(Sin(angle), hdz))

PrintthzWrongColumns(data, zAngleInRadian, preCompElevInRadian) ==
    IF ~(HasCol(data, 3) /\ HasCol(data, 4)) THEN Raise("IndexError")
    ELSE LET zdz == ColAt(data, 3)
             hdz == ColAt(data, 4)
         IN  Ok(VSub(Project(zdz, hdz, zAngleInRadian),
                     Project(zdz, hdz, preCompElevInRadian)))
Printthz(data, zAngleInRadian, preCompElevInRadian) ==
    IF ~(HasCol(data, 2) /\ HasCol(data, 3)) THEN Raise("IndexError")
    ELSE LET zdz == ColAt(data, 2)
             hdz == ColAt(data, 3)
         IN  Ok(VSub(Project(zdz, hdz, zAngleInRadian),
                     Project(zdz, hdz, preCompElevInRadian)))

TempCorrSwapped(data, M2TzGrad, M2TrGrad) ==
    IF ~(HasCol(data, 4) /\ HasCol(data, 5)) THEN Raise("IndexError")
    ELSE LET tzdz == ColAt(data, 4)
             trdz == ColAt(data, 5)
         IN  Ok(VAdd(VScale(M2TzGrad, trdz), VScale(M2TrGrad, tzdz)))
TempCorr(data, M2TzGrad, M2TrGrad) ==
    IF ~(HasCol(data, 4) /\ HasCol(data, 5)) THEN Raise("IndexError")
    ELSE LET tzdz == ColAt(data, 4)
             trdz == ColAt(data, 5)
         IN  Ok(VAdd(VScale(M2TzGrad, tzdz), VScale(M2TrGrad, trdz)))

-----------------------------------------------------------------------------
(* Inputs of the model: what the data files hold, and the arguments *)

\* data directories
Dirs == {"M2", "M1M3"}

\* one force per actuator at one tabulated angle (two actuators)
ForceVectors == {<<0, 3>>, <<2, -1>>}

\* tabulated zenith angles, in degrees
Angles == 0..3

\* rulers of every order, the malformed ones included
Rulers == UNION {[1..n -> Angles] : n \in 1..MaxCols}

\* the array np.loadtxt returns for a LUT file: ruler row, then one row per actuator
MakeLUT(ruler, cols) ==
    <<[k \in 1..Len(ruler) |-> R(ruler[k])]>> \o
    [a \in 1..2 |-> [k \in 1..Len(ruler) |-> R(cols[k][a])]]

LUTTables == UNION {{MakeLUT(ruler, cols) : cols \in [1..Len(ruler) -> ForceVectors]} :
                      ruler \in Rulers}

\* zenith angles in half degrees, from below the smallest to above the largest ruler entry
Queries == {Rat(k, 2) : k \in (-1)..7}


\* rows of an FEA table: x, y, zenith and horizon print-through, Tz and Tr response
FEARows == {<<1, 0, 2, -1, 3, 1>>, <<0, 1, -3, 4, 0, 2>>, <<-1, -1, 5, 5, -2, -4>>}

\* columns of a well-formed FEA table (x, y, zdz, hdz, tzdz, trdz)
NumFEAColumns == 6

\* FEA tables of the expected shape and tables with a row too many or columns missing
MakeFEA(rows, ncols) == [p \in 1..Len(rows) |-> [c \in 1..ncols |-> R(rows[p][c])]]
FEATables == {MakeFEA(rows, ncols) :
                 rows \in UNION {[1..n -> FEARows] : n \in 2..(NumSamplePoints + 1)},
                 ncols \in {3, 5, NumFEAColumns}}
DefaultFEA == MakeFEA([p \in 1..NumSamplePoints |-> <<1, 0, 2, -1, 3, 1>>], NumFEAColumns)

\* actuator force tables: one row and one column per actuator when well formed
MakeForce(n, m) == [r \in 1..n |-> [c \in 1..m |-> R(3 * r - c)]]
ForceTables == {MakeForce(n, m) : n, m \in 2..(NumSamplePoints + 1)}
DefaultForce == MakeForce(NumSamplePoints, NumSamplePoints)

\* temperature gradients in degree C
Gradients == {R(0), R(1), Rat(-1, 2)}

-----------------------------------------------------------------------------
(* The mirror object *)

\* M2Sim.__init__ -> MirrorSim.__init__ with the defaults surf=None, mirrorDataDir=None;
\* fs is what the data files hold
InitWith(fs) ==
    /\ RiInM = Rat(9, 10)
    /\ RinM = Rat(171, 100)
    /\ surf = NoSurf
    /\ mirrorDataDir = None
    /\ pc = "idle"
    /\ call = [op |-> "__init__"]
    /\ ret = NoRet
    /\ trace = <<>>
    /\ jj = 0
    /\ ii = 0
    /\ content = <<>>
    /\ consulted = {}
    /\ files = fs

SetMirrorDataDir(dirs) ==
    /\ pc = "idle"
    /\ \E d \in dirs :
        /\ mirrorDataDir' = d
        /\ call' = [op |-> "setMirrorDataDir", mirrorDataDir |-> d]
    /\ ret' = Ok(None)
    /\ trace' = <<>>
    /\ UNCHANGED <<RiInM, RinM, surf, pc, gridVars, files>>

\* os.path.join(self.mirrorDataDir, dataFileName)
PathOf(dir, dataFileName) == <<dir, dataFileName>>

\* getMirrorData: np.loadtxt of the file; os.path.join raises a TypeError
\* while the directory is None
MirrorData(dir, dataFileName) ==
    IF dir = None THEN Raise("TypeError") ELSE Ok(files[dataFileName])

GetLUTforce(queries) ==
    /\ pc = "idle"
    /\ \E zangleInDeg \in queries :
        LET lut == MirrorData(mirrorDataDir, "LUT")
        IN  /\ call' = [op |-> "getLUTforce", zangleInDeg |-> zangleInDeg,
                        path |-> PathOf(mirrorDataDir, "LUT")]
            /\ ret' = IF lut.kind = "ok" THEN LUTforce(lut.value, zangleInDeg) ELSE lut
    /\ trace' = <<"getMirrorData">>
    /\ UNCHANGED <<objVars, pc, gridVars, files>>

\* the files of the model when only the LUT file matters
LUTFiles == {[LUT |-> t] : t \in LUTTables}

InitLUT == disk = Absent /\ \E fs \in LUTFiles : InitWith(fs)

NextLUT == SetMirrorDataDir({"M1M3"}) \/ GetLUTforce(Queries)

SpecLUT == InitLUT /\ [][NextLUT]_vars

-----------------------------------------------------------------------------
(* The surface corrector of M2Sim *)

GetActForce ==
    /\ pc = "idle"
    /\ call' = [op |-> "getActForce", path |-> PathOf(mirrorDataDir, "force")]
    /\ ret' = MirrorData(mirrorDataDir, "force")
    /\ trace' = <<"getMirrorData">>
    /\ UNCHANGED <<objVars, pc, gridVars, files>>

GetPrintthz ==
    /\ pc = "idle"
    /\ \E zAngleInRadian \in ZenithAngles, preCompElevInRadian \in ZenithAngles :
        LET data == MirrorData(mirrorDataDir, "FEA")
        IN  /\ call' = [op |-> "getPrintthz", zAngleInRadian |-> zAngleInRadian,
                        preCompElevInRadian |-> preCompElevInRadian,
                        path |-> PathOf(mirrorDataDir, "FEA")]
            /\ ret' = IF data.kind = "ok"
                          THEN Printthz(data.value, zAngleInRadian, preCompElevInRadian)
                          ELSE data
    /\ trace' = <<"getMirrorData">>
    /\ UNCHANGED <<objVars, pc, gridVars, files>>

GetTempCorr ==
    /\ pc = "idle"
    /\ \E M2TzGrad \in Gradients, M2TrGrad \in Gradients :
        LET data == MirrorData(mirrorDataDir, "FEA")
        IN  /\ call' = [op |-> "getTempCorr", M2TzGrad |-> M2TzGrad,
                        M2TrGrad |-> M2TrGrad, path |-> PathOf(mirrorDataDir, "FEA")]
            /\ ret' = IF data.kind = "ok"
                          THEN TempCorr(data.value, M2TzGrad, M2TrGrad)
                          ELSE data
    /\ trace' = <<"getMirrorData">>
    /\ UNCHANGED <<objVars, pc, gridVars, files>>

\* the files of the model when the FEA and the force table matter
M2Files == {[FEA |-> t, force |-> DefaultForce] : t \in FEATables}
               \cup {[FEA |-> DefaultFEA, force |-> t] : t \in ForceTables}

InitM2 == disk = Absent /\ \E fs \in M2Files : InitWith(fs)

NextM2 == SetMirrorDataDir({"M2"}) \/ GetActForce \/ GetPrintthz \/ GetTempCorr

SpecM2 == InitM2 /\ [][NextM2]_vars

-----------------------------------------------------------------------------
(* MirrorSim.__gridSampInMnInZemax *)

\* Ff = Rbf(xfInMm, yfInMm, zfInMm): the interpolant of the surface field, here a
\* constant field or a plane, both non-zero on the nodes around the origin
Fields == {"const", "plane"}
Ff(field, x, y) ==
    IF field = "const" THEN R(2) ELSE RAdd(RAdd(x, RMul(R(2), y)), R(1))

NUM_X_PIXELS(nx) == nx + 4
NUM_Y_PIXELS(ny) == ny + 4

\* spatial extension factors; extFr is kept squared: extFr^2 = extFx * extFy
ExtFx(nx) == Rat(NUM_X_PIXELS(nx) - 1, nx - 1)
ExtFy(ny) == Rat(NUM_Y_PIXELS(ny) - 1, ny - 1)
ExtFrSquared(nx, ny) == RMul(ExtFx(nx), ExtFy(ny))

Delx(outerRinMm, nx) ==
    RDiv(RMul(RMul(outerRinMm, R(2)), ExtFx(nx)), R(NUM_X_PIXELS(nx) - 1))
Dely(outerRinMm, ny) ==
    RDiv(RMul(RMul(outerRinMm, R(2)), ExtFy(ny)), R(NUM_Y_PIXELS(ny) - 1))

Minx(outerRinMm, nx) ==
    RMul(RMul(Rat(-1, 2), R(NUM_X_PIXELS(nx) - 1)), Delx(outerRinMm, nx))
Miny(outerRinMm, ny) ==
    RMul(RMul(Rat(-1, 2), R(NUM_Y_PIXELS(ny) - 1)), Dely(outerRinMm, ny))

Epsilon(outerRinMm, nx, ny) ==
    RMul(Rat(1, 10000), RMin(Delx(outerRinMm, nx), Dely(outerRinMm, ny)))

\* the header line "%d %d %.9E %.9E"
Header(c) ==
    <<NUM_X_PIXELS(c.nx), NUM_Y_PIXELS(c.ny), Delx(c.outerRinMm, c.nx),
      Dely(c.outerRinMm, c.ny)>>

\* x and y of the node of loop indices j (outer) and i (inner), y inverted
NodeX(c, i) == RAdd(Minx(c.outerRinMm, c.nx), RMul(R(i - 1), Delx(c.outerRinMm, c.nx)))
NodeY(c, j) ==
    RNeg(RAdd(Miny(c.outerRinMm, c.ny), RMul(R(j - 1), Dely(c.outerRinMm, c.ny))))

\* (r < innerRinMm/extFr) or (r > outerRinMm*extFr) with r = sqrt(x^2 + y^2);
\* all four quantities are >= 0, so both comparisons are decided on the squares
OutsideAnnulusInnerOnly(c, x, y) ==
    LET r2 == RAdd(RMul(x, x), RMul(y, y))
        e2 == ExtFrSquared(c.nx, c.ny)
    IN  RLt(r2, RDiv(RMul(c.innerRinMm, c.innerRinMm), e2))
OutsideAnnulus(c, x, y) ==
    LET r2 == RAdd(RMul(x, x), RMul(y, y))
        e2 == ExtFrSquared(c.nx, c.ny)
    IN  \/ RLt(r2, RDiv(RMul(c.innerRinMm, c.innerRinMm), e2))
        \/ RLt(RMul(RMul(c.outerRinMm, c.outerRinMm), e2), r2)

\* z, dx, dy, dxdy of a node inside the annulus, by central differences of Ff
Fitted(c, x, y) ==
    LET e == Epsilon(c.outerRinMm, c.nx, c.ny)
        twoE == RMul(R(2), e)
        F(u, v) == Ff(c.field, u, v)
        z == F(x, y)
        dx == RDiv(RSub(F(RAdd(x, e), y), F(RSub(x, e), y)), twoE)
        dy == RDiv(RSub(F(x, RAdd(y, e)), F(x, RSub(y, e))), twoE)
        tem3 == RDiv(RSub(F(RAdd(x, e), RAdd(y, e)), F(RSub(x, e), RAdd(y, e))), twoE)
        tem4 == RDiv(RSub(F(RAdd(x, e), RSub(y, e)), F(RSub(x, e), RSub(y, e))), twoE)
        dxdy == RDiv(RSub(tem3, tem4), twoE)
    IN  <<z, dx, dy, dxdy>>

\* the line "%.9E %.9E %.9E %.9E" of the node of loop indices j, i
NodeLine(c, j, i) ==
    IF OutsideAnnulus(c, NodeX(c, i), NodeY(c, j))
        THEN <<R(0), R(0), R(0), R(0)>>
        ELSE Fitted(c, NodeX(c, i), NodeY(c, j))

\* bounds of the two loops: for jj in range(1, NUM_X_PIXELS + 1),
\* for ii in range(1, NUM_Y_PIXELS + 1)
OuterCountFromY(c) == NUM_Y_PIXELS(c.ny)
OuterCount(c) == NUM_X_PIXELS(c.nx)
InnerCount(c) == NUM_Y_PIXELS(c.ny)

\* the setup before the loops (lines 151-176) for the arguments c;
\* nx = 1 or ny = 1 divides by zero
GridSetup(c) ==
    /\ IF c.nx = 1 \/ c.ny = 1
         THEN /\ ret' = Raise("ZeroDivisionError")
              /\ pc' = "idle"
              /\ content' = <<>>
              /\ UNCHANGED <<jj, ii>>
         ELSE /\ ret' = NoRet
              /\ pc' = "grid_loop"
              /\ content' = <<Header(c)>>
              /\ jj' = 1
              /\ ii' = 1
    /\ consulted' = {}

\* a call of the resampler itself; the call record keeps the file as the call
\* found it
GridSampCall(grids, radii, fields, resFiles) ==
    /\ pc = "idle"
    /\ \E nx \in grids, ny \in grids, rr \in radii, field \in fields, resFile \in resFiles :
        LET c == [op |-> "__gridSampInMnInZemax", nx |-> nx, ny |-> ny,
                  innerRinMm |-> R(rr[1]), outerRinMm |-> R(rr[2]),
                  field |-> field, resFile |-> resFile, before |-> disk]
        IN  call' = c /\ GridSetup(c)
    /\ trace' = <<"Rbf">>
    /\ UNCHANGED <<objVars, disk, files>>

\* one pass of the inner loop body (lines 182-227), then the loop bookkeeping
GridNode ==
    /\ pc = "grid_loop"
    /\ content' = Append(content, NodeLine(call, jj, ii))
    /\ consulted' = IF OutsideAnnulus(call, NodeX(call, ii), NodeY(call, jj))
                        THEN consulted
                        ELSE consulted \cup {<<jj, ii>>}
    /\ IF ii < InnerCount(call)
         THEN /\ ii' = ii + 1
              /\ UNCHANGED <<jj, pc, ret>>
         ELSE IF jj < OuterCount(call)
         THEN /\ ii' = 1
              /\ jj' = jj + 1
              /\ UNCHANGED <<pc, ret>>
         ELSE /\ UNCHANGED <<jj, ii>>
              /\ IF call.resFile = None
                   THEN pc' = "idle" /\ ret' = Ok(content')
                   ELSE pc' = "grid_open" /\ UNCHANGED ret
    /\ UNCHANGED <<objVars, call, trace, disk, files>>

\* outid = open(resFile, "w"): the file is created or truncated
GridOpen ==
    /\ pc = "grid_open"
    /\ disk' = File(<<>>)
    /\ pc' = "grid_write"
    /\ trace' = Append(trace, "open")
    /\ UNCHANGED <<objVars, call, ret, jj, ii, content, consulted, files>>

\* open(resFile, "w") raises: the path cannot be written
GridOpenFails ==
    /\ pc = "grid_open"
    /\ ret' = Raise("IOError")
    /\ pc' = "idle"
    /\ trace' = Append(trace, "open")
    /\ UNCHANGED <<objVars, call, jj, ii, content, consulted, disk, files>>

\* outid.write(content); outid.close(); return content
GridWrite ==
    /\ pc = "grid_write"
    /\ disk' = File(content)
    /\ ret' = Ok(content)
    /\ pc' = "idle"
    /\ trace' = Append(trace, "write")
    /\ UNCHANGED <<objVars, call, jj, ii, content, consulted, files>>

\* outid.write(content) or outid.close() raises after k lines reached the file
GridWriteFails ==
    /\ pc = "grid_write"
    /\ \E k \in 0..(Len(content) - 1) : disk' = File(SubSeq(content, 1, k))
    /\ ret' = Raise("IOError")
    /\ pc' = "idle"
    /\ trace' = Append(trace, "write")
    /\ UNCHANGED <<objVars, call, jj, ii, content, consulted, files>>

\* inner and outer radius handed to the resampler, in mm
Radii == {<<1, 2>>, <<3, 4>>, <<0, 3>>}

\* a residue map an earlier run left in the file
OldMap == <<(<<5, 5, R(1), R(1)>>)>>

\* the resampler is called once on the fresh object, for every prior state of the file
InitGrid ==
    /\ InitWith([grid |-> <<>>])
    /\ disk \in {Absent, File(OldMap)}

NextGrid ==
    \/ call.op = "__init__" /\ GridSampCall(1..MaxGrid, Radii, Fields, {None, "resFile"})
    \/ GridNode
    \/ GridOpen
    \/ GridOpenFails
    \/ GridWrite
    \/ GridWriteFails

SpecGrid == InitGrid /\ [][NextGrid]_vars

-----------------------------------------------------------------------------
(* M2Sim.getMirrorResInMmInZemax and writeMirZkAndGridResInZemax *)

\* the bending mode grid file: x and y of the sample points in m
DefaultGrid == [p \in 1..NumSamplePoints |-> <<Rat(p, 2), Rat(-1, p)>>]
DefaultLUT == MakeLUT(<<0, 2>>, <<(<<0, 3>>), (<<2, -1>>)>>)
DefaultFiles == [LUT |-> DefaultLUT, FEA |-> DefaultFEA, force |-> DefaultForce,
                 grid |-> DefaultGrid]

\* surfaces along z in um, one value per sample point, and one that is too long
Surfaces == {[p \in 1..NumSamplePoints |-> R(p)],
             [p \in 1..(NumSamplePoints + 1) |-> R(2 - p)]}

SetSurfAlongZ ==
    /\ pc = "idle"
    /\ \E surfAlongZinUm \in Surfaces :
        /\ surf' = Array(surfAlongZinUm)
        /\ call' = [op |-> "setSurfAlongZ", surfAlongZinUm |-> surfAlongZinUm]
    /\ ret' = Ok(None)
    /\ trace' = <<>>
    /\ UNCHANGED <<RiInM, RinM, mirrorDataDir, pc, gridVars, files>>

GetMirrorData ==
    /\ pc = "idle"
    /\ \E dataFileName \in DOMAIN files :
        /\ call' = [op |-> "getMirrorData", path |-> PathOf(mirrorDataDir, dataFileName)]
        /\ ret' = MirrorData(mirrorDataDir, dataFileName)
    /\ trace' = <<>>
    /\ UNCHANGED <<objVars, pc, gridVars, files>>

\* wepPhoSim.CoTransform.M2CRS2ZCRS: a sign flip of x and of the surface
M2CRS2ZCRS(x, y, z) ==
    <<[p \in 1..Len(x) |-> RNeg(x[p])], y, [p \in 1..Len(z) |-> RNeg(z[p])]>>

\* Zernike orders handed to the fit: negative, zero, one and the default 28
NumTermsArgs == {-1, 0, 1, 28}

\* the call of getMirrorResInMmInZemax, directly or as the first statement of
\* writeMirZkAndGridResInZemax (nx = ny = surfaceGridN, radii in mm)
ResCall(ops, grids, fields, resFiles) ==
    /\ pc = "idle"
    /\ \E op \in ops, numTerms \in NumTermsArgs, surfaceGridN \in grids,
          field \in fields, resFile \in resFiles :
        call' = [op |-> op, numTerms |-> numTerms,
                 path |-> PathOf(mirrorDataDir, "grid"),
                 nx |-> surfaceGridN, ny |-> surfaceGridN,
                 innerRinMm |-> RMul(RiInM, R(1000)), outerRinMm |-> RMul(RinM, R(1000)),
                 field |-> field, resFile |-> resFile]
    /\ pc' = "res_load"
    /\ ret' = NoRet
    /\ trace' = <<>>
    /\ UNCHANGED <<objVars, gridVars, files>>

\* data = self.getMirrorData(gridFileName); bx = data[:, 0]; by = data[:, 1]
ResLoad ==
    /\ pc = "res_load"
    /\ LET data == MirrorData(mirrorDataDir, "grid")
       IN  IF data.kind = "ok"
             THEN pc' = "res_transform" /\ trace' = Append(trace, "getMirrorData")
                  /\ UNCHANGED ret
             ELSE pc' = "idle" /\ ret' = data /\ UNCHANGED trace
    /\ UNCHANGED <<objVars, call, gridVars, files>>

\* bxInZemax, byInZemax, surfInZemax = M2CRS2ZCRS(bx, by, self.surf);
\* the negation of a surface that is still None is a TypeError
ResTransformInPlace ==
    /\ pc = "res_transform"
    /\ IF surf.none
         THEN pc' = "idle" /\ ret' = Raise("TypeError") /\ UNCHANGED <<trace, surf>>
         ELSE /\ pc' = "res_fit" /\ trace' = Append(trace, "M2CRS2ZCRS") /\ UNCHANGED ret
              /\ surf' = Array(M2CRS2ZCRS(ColAt(files["grid"], 0),
                                          ColAt(files["grid"], 1), surf.z)[3])
    /\ UNCHANGED <<RiInM, RinM, mirrorDataDir, call, gridVars, files>>
ResTransform ==
    /\ pc = "res_transform"
    /\ IF surf.none
         THEN pc' = "idle" /\ ret' = Raise("TypeError") /\ UNCHANGED trace
         ELSE pc' = "res_fit" /\ trace' = Append(trace, "M2CRS2ZCRS") /\ UNCHANGED ret
    /\ UNCHANGED <<objVars, call, gridVars, files>>

\* what the fit is handed: the transformed surface and the normalized coordinates
FitInput ==
    LET t == M2CRS2ZCRS(ColAt(files["grid"], 0), ColAt(files["grid"], 1), surf.z)
    IN  [surf |-> t[3],
         x |-> [p \in 1..Len(t[1]) |-> RDiv(t[1][p], RinM)],
         y |-> [p \in 1..Len(t[2]) |-> RDiv(t[2][p], RinM)]]

\* lsst.ts.wep ZernikeFit and ZernikeEval are not modelled: the coefficients and
\* the residue are terms over the fit's input
ZernikeFit(in, numTerms) == [zkOf |-> in, numTerms |-> numTerms]
Residue(in, zc) == [residueOf |-> in.surf, zc |-> zc]

\* __getMirrorResInNormalizedCoor returns; the units are changed to mm (lines
\* 142-145).  getMirrorResInMmInZemax returns here, writeMirZkAndGridResInZemax
\* goes on into the resampler.
ResFit ==
    /\ pc = "res_fit"
    /\ Len(surf.z) = NRows(files["grid"])
    /\ trace' = Append(trace, "ZernikeFit")
    /\ LET zc == ZernikeFit(FitInput, call.numTerms)
           res == Residue(FitInput, zc)
           bxInMm == VScale(R(1000), M2CRS2ZCRS(ColAt(files["grid"], 0),
                                                ColAt(files["grid"], 1), surf.z)[1])
           byInMm == VScale(R(1000), M2CRS2ZCRS(ColAt(files["grid"], 0),
                                                ColAt(files["grid"], 1), surf.z)[2])
       IN  IF call.op = "getMirrorResInMmInZemax"
             THEN /\ ret' = Ok([resInMm |-> res, bxInMm |-> bxInMm, byInMm |-> byInMm,
                                zcInMm |-> zc])
                  /\ pc' = "idle"
                  /\ UNCHANGED <<jj, ii, content, consulted>>
             ELSE GridSetup(call)
    /\ UNCHANGED <<objVars, call, disk, files>>

\* the fit raises: the surface and the coordinates differ in length, or the
\* library refuses the order (what it does with an order <= 0 is not in this
\* repository, so it may also return)
ResFitFails ==
    /\ pc = "res_fit"
    /\ Len(surf.z) # NRows(files["grid"]) \/ call.numTerms <= 0
    /\ trace' = Append(trace, "ZernikeFit")
    /\ ret' = Raise("ValueError")
    /\ pc' = "idle"
    /\ UNCHANGED <<objVars, call, gridVars, files>>

\* every operation of the object, on the default files
Init == disk = Absent /\ InitWith(DefaultFiles)

Next ==
    \/ SetMirrorDataDir(Dirs)
    \/ SetSurfAlongZ
    \/ GetMirrorData
    \/ GetLUTforce({R(1), R(3)})
    \/ GetActForce
    \/ GetPrintthz
    \/ GetTempCorr
    \/ ResCall({"getMirrorResInMmInZemax", "writeMirZkAndGridResInZemax"},
               {2}, {"plane"}, {None})
    \/ ResLoad
    \/ ResTransform
    \/ ResFit
    \/ ResFitFails
    \/ GridNode

Spec == Init /\ [][Next]_vars

-----------------------------------------------------------------------------
(* Claims about getLUTforce, checked under SpecLUT *)

\* the last call was getLUTforce and it read its table
LUTCalled == call.op = "getLUTforce" /\ call.path[1] # None
TheRuler == files["LUT"][1]
TheQuery == call.zangleInDeg
\* force column i (counted from 1) of the LUT file, one entry per actuator row
TheColumn(i) == [a \in 1..(Len(files["LUT"]) - 1) |-> files["LUT"][a + 1][i]]
StrictlyIncreasing(ruler) == \A k \in 1..(Len(ruler) - 1) : RLt(ruler[k], ruler[k + 1])
StrictlyInside(ruler, q) ==
    /\ \E k \in 1..Len(ruler) : RLt(ruler[k], q)
    /\ \E k \in 1..Len(ruler) : RLt(q, ruler[k])
Brackets(ruler, q) == {i \in 1..(Len(ruler) - 1) : RLe(ruler[i], q) /\ RLt(q, ruler[i + 1])}

\* C1: for a strictly increasing ruler and a query q strictly between its minimum
\* and maximum there is exactly one i with ruler[i] <= q < ruler[i+1], and every
\* actuator row a of the result satisfies
\*   result[a] * (ruler[i+1] - ruler[i])
\*       = (ruler[i+1] - q) * col_i[a] + (q - ruler[i]) * col_{i+1}[a];
\* at the midpoint of ruler[i], ruler[i+1] the result is the mean of the two columns.
C1_LinearInterpolation ==
    (LUTCalled /\ StrictlyIncreasing(TheRuler) /\ StrictlyInside(TheRuler, TheQuery)) =>
        /\ ret.kind = "ok"
        /\ Cardinality(Brackets(TheRuler, TheQuery)) = 1
        /\ \A i \in Brackets(TheRuler, TheQuery) :
            /\ Len(ret.value) = Len(TheColumn(i))
            /\ \A a \in 1..Len(ret.value) :
                /\ RMul(ret.value[a], RSub(TheRuler[i + 1], TheRuler[i]))
                     = RAdd(RMul(RSub(TheRuler[i + 1], TheQuery), TheColumn(i)[a]),
                            RMul(RSub(TheQuery, TheRuler[i]), TheColumn(i + 1)[a]))
                /\ RAdd(TheQuery, TheQuery) = RAdd(TheRuler[i], TheRuler[i + 1])
                     => RAdd(ret.value[a], ret.value[a])
                          = RAdd(TheColumn(i)[a], TheColumn(i + 1)[a])

\* C1 witness: a query a quarter of the way into an interval of width 2 whose two
\* columns differ was answered
C1_Witness ==
    /\ LUTCalled /\ StrictlyIncreasing(TheRuler) /\ ret.kind = "ok"
    /\ \E i \in 1..(Len(TheRuler) - 1) :
        /\ RSub(TheRuler[i + 1], TheRuler[i]) = R(2)
        /\ TheQuery = RAdd(TheRuler[i], Rat(1, 2))
        /\ TheColumn(i) # TheColumn(i + 1)

\* C2: for a strictly increasing ruler, a query >= max(ruler) returns exactly the
\* last force column and a query <= min(ruler) exactly the first, without an error.
C2_ClampOutOfRange ==
    (LUTCalled /\ StrictlyIncreasing(TheRuler)) =>
        /\ RLe(TheRuler[Len(TheRuler)], TheQuery) => ret = Ok(TheColumn(Len(TheRuler)))
        /\ RLe(TheQuery, TheRuler[1]) => ret = Ok(TheColumn(1))

\* C2 witness: a query strictly above the largest angle of a table with several
\* columns, the first and last differing, was answered
C2_Witness ==
    /\ LUTCalled /\ StrictlyIncreasing(TheRuler) /\ Len(TheRuler) >= 2
    /\ RLt(TheRuler[Len(TheRuler)], TheQuery)
    /\ TheColumn(1) # TheColumn(Len(TheRuler))
    /\ ret.kind = "ok"

\* C3: for a strictly increasing ruler, a query equal to ruler[i] (first, interior
\* or last i) returns force column i unchanged.
C3_ExactAtNodes ==
    (LUTCalled /\ StrictlyIncreasing(TheRuler)) =>
        \A i \in 1..Len(TheRuler) : TheQuery = TheRuler[i] => ret = Ok(TheColumn(i))

\* C3 witness: a query at an interior node whose column differs from both
\* neighbouring columns was answered
C3_Witness ==
    /\ LUTCalled /\ StrictlyIncreasing(TheRuler) /\ ret.kind = "ok"
    /\ \E i \in 2..(Len(TheRuler) - 1) :
        /\ TheQuery = TheRuler[i]
        /\ TheColumn(i) # TheColumn(i - 1)
        /\ TheColumn(i) # TheColumn(i + 1)

\* C4: whenever some adjacent pair of the ruler has ruler[k+1] <= ruler[k],
\* getLUTforce fails with the malformed-table error (the ValueError of the code)
\* for every query, clamped or not, and returns no force vector.
C4_MalformedRulerRejected ==
    (LUTCalled /\ ~StrictlyIncreasing(TheRuler)) =>
        /\ ret.kind = MalformedTableError
        /\ "value" \notin DOMAIN ret

\* C4 witness: a table with two equal neighbouring angles was rejected on a query
\* at or above its largest angle
C4_Witness ==
    /\ LUTCalled
    /\ \E k \in 1..(Len(TheRuler) - 1) : TheRuler[k + 1] = TheRuler[k]
    /\ \A k \in 1..Len(TheRuler) : RLe(TheRuler[k], TheQuery)
    /\ ret.kind = MalformedTableError

-----------------------------------------------------------------------------
(* Claims about the surface corrector, checked under SpecM2 *)

TheFEA == files["FEA"]
\* the last call returned an array
Returned(op) == call.op = op /\ ret.kind = "ok"

\* C7: getPrintthz returns at every sample point p
\*   [Z(p) cos(theta) + H(p) sin(theta)] - [Z(p) cos(theta0) + H(p) sin(theta0)]
\* with Z, H the columns 2 and 3 of the FEA table (it returns whenever the table
\* has these columns), and zero everywhere when theta = theta0.
C7_PrintThrough ==
    /\ (call.op = "getPrintthz" /\ call.path[1] # None /\ NCols(TheFEA) >= 4)
           => ret.kind = "ok"
    /\ Returned("getPrintthz") =>
        /\ Len(ret.value) = NRows(TheFEA)
        /\ \A p \in 1..NRows(TheFEA) :
            LET Z == TheFEA[p][3]
                H == TheFEA[p][4]
                t == call.zAngleInRadian
                t0 == call.preCompElevInRadian
            IN  /\ ret.value[p] = RAdd(RMul(Z, RSub(Cos(t), Cos(t0))),
                                       RMul(H, RSub(Sin(t), Sin(t0))))
                /\ t = t0 => ret.value[p] = R(0)

\* C7 witness: a print-through was returned for a zenith angle equal to a non-zero
\* pre-compensation angle on a table with non-zero influence columns
C7_Witness ==
    /\ Returned("getPrintthz")
    /\ call.zAngleInRadian = call.preCompElevInRadian
    /\ call.zAngleInRadian = "atan(3/4)"
    /\ \E p \in 1..NRows(TheFEA) : TheFEA[p][3] # R(0) /\ TheFEA[p][4] # R(0)

\* C8: getTempCorr returns at every sample point p the value dTz*Tz(p) + dTr*Tr(p)
\* with Tz, Tr the columns 4 and 5 of the FEA table (it returns whenever the table
\* has these columns), and zero everywhere when dTz = dTr = 0.
C8_ThermalSuperposition ==
    /\ (call.op = "getTempCorr" /\ call.path[1] # None /\ NCols(TheFEA) >= 6)
           => ret.kind = "ok"
    /\ Returned("getTempCorr") =>
        /\ Len(ret.value) = NRows(TheFEA)
        /\ \A p \in 1..NRows(TheFEA) :
            /\ ret.value[p] = RAdd(RMul(call.M2TzGrad, TheFEA[p][5]),
                                   RMul(call.M2TrGrad, TheFEA[p][6]))
            /\ (call.M2TzGrad = R(0) /\ call.M2TrGrad = R(0)) => ret.value[p] = R(0)

\* C8 witness: a thermal field was returned for two different non-zero gradients
C8_Witness ==
    /\ Returned("getTempCorr")
    /\ call.M2TzGrad = R(1) /\ call.M2TrGrad = Rat(-1, 2)
    /\ \E p \in 1..NRows(TheFEA) : TheFEA[p][5] # TheFEA[p][6]

\* the table a corrector method loads has the expected sample-point shape
ShapeMatches(op) ==
    IF op = "getActForce"
        THEN NRows(files["force"]) = NumSamplePoints
             /\ NCols(files["force"]) = NumSamplePoints
        ELSE NRows(TheFEA) = NumSamplePoints /\ NCols(TheFEA) = NumFEAColumns

\* C9: getPrintthz, getTempCorr and getActForce fail (with the error the design
\* calls DataShapeError; any raised error is accepted here) whenever the table they
\* load has a row or column count that differs from the expected one, and return
\* no array.
C9_ShapeMismatchRejected ==
    (call.op \in {"getActForce", "getPrintthz", "getTempCorr"}
       /\ call.path[1] # None /\ ~ShapeMatches(call.op)) =>
        /\ ret.kind # "ok"
        /\ "value" \notin DOMAIN ret

-----------------------------------------------------------------------------
(* Claims about the grid resampler, checked under SpecGrid *)

GridCalled == call.op = "__gridSampInMnInZemax"
Zero4 == <<R(0), R(0), R(0), R(0)>>
\* loop indices <<j, i>> of the n-th emitted node line, n counted from 1
NodeOf(n) == <<((n - 1) \div (call.ny + 4)) + 1, ((n - 1) % (call.ny + 4)) + 1>>
\* r^2 of the node of loop indices j, i
RadiusSquared(j, i) ==
    RAdd(RMul(NodeX(call, i), NodeX(call, i)), RMul(NodeY(call, j), NodeY(call, j)))
\* r < innerRadius/extFr, r > outerRadius*extFr, on the squares
BelowInner(j, i) ==
    RLt(RMul(RadiusSquared(j, i), RMul(ExtFx(call.nx), ExtFy(call.ny))),
        RMul(call.innerRinMm, call.innerRinMm))
AboveOuter(j, i) ==
    RLt(RMul(call.outerRinMm, call.outerRinMm),
        RDiv(RadiusSquared(j, i), RMul(ExtFx(call.nx), ExtFy(call.ny))))

\* C5: every node of a returned map with r < innerRadius/extFr or
\* r > outerRadius*extFr carries (0, 0, 0, 0), whatever the field, and the
\* interpolant was evaluated only for nodes with
\* innerRadius/extFr <= r <= outerRadius*extFr.
C5_ZeroFillOutsideAnnulus ==
    (GridCalled /\ pc = "idle" /\ ret.kind = "ok") =>
        /\ content = ret.value
        /\ \A n \in 1..(Len(content) - 1) :
            LET j == NodeOf(n)[1]
                i == NodeOf(n)[2]
            IN  (BelowInner(j, i) \/ AboveOuter(j, i)) =>
                    content[n + 1] = Zero4 /\ <<j, i>> \notin consulted
        /\ \A node \in consulted :
            ~BelowInner(node[1], node[2]) /\ ~AboveOuter(node[1], node[2])

\* C5 witness: a finished map holding a node inside the hole, a node beyond the
\* outer limit and a fitted non-zero node between them
C5_Witness ==
    /\ GridCalled /\ pc = "idle" /\ ret.kind = "ok"
    /\ \E n \in 1..(Len(content) - 1) : BelowInner(NodeOf(n)[1], NodeOf(n)[2])
    /\ \E n \in 1..(Len(content) - 1) : AboveOuter(NodeOf(n)[1], NodeOf(n)[2])
    /\ \E n \in 1..(Len(content) - 1) :
        NodeOf(n) \in consulted /\ content[n + 1][1] # R(0)

\* C6: for grid dimensions nx, ny >= 2, equal or not, the returned map is one
\* header line (nx+4, ny+4, pitch_x, pitch_y), with pitch = 2*outerRadius/(n-1)
\* on each axis, followed by exactly (nx+4)*(ny+4) node lines of four fields.
C6_HeaderAndNodeCount ==
    (GridCalled /\ pc = "idle" /\ ret.kind = "ok") =>
        /\ Len(ret.value) = 1 + (call.nx + 4) * (call.ny + 4)
        /\ ret.value[1] = <<call.nx + 4, call.ny + 4,
                            RDiv(RMul(R(2), call.outerRinMm), R(call.nx - 1)),
                            RDiv(RMul(R(2), call.outerRinMm), R(call.ny - 1))>>
        /\ \A k \in 2..Len(ret.value) : Len(ret.value[k]) = 4

\* C6 witness: a map was returned for nx # ny
C6_Witness ==
    /\ GridCalled /\ pc = "idle" /\ ret.kind = "ok"
    /\ call.nx = 2 /\ call.ny = 3
    /\ Len(ret.value) = 43

-----------------------------------------------------------------------------
(* Claims about the fit pipeline, checked under Spec *)

\* C10: getMirrorResInMmInZemax, called directly or through
\* writeMirZkAndGridResInZemax, rejects a non-positive numTerms (with the error
\* the design calls ConfigurationError; any raised error is accepted here) before
\* any numeric work: the grid file is not loaded, the coordinate transform is not
\* applied and no fit is attempted.  (The code holds no maximum order, so the
\* formula states the claim for the non-positive orders.)
C10_OrderCheckedFirst ==
    (call.op \in {"getMirrorResInMmInZemax", "writeMirZkAndGridResInZemax"}
       /\ call.numTerms <= 0) =>
        /\ \A k \in 1..Len(trace) :
            trace[k] \notin {"getMirrorData", "M2CRS2ZCRS", "ZernikeFit"}
        /\ pc = "idle" => ret.kind # "ok"


\* ---------------------------------------------------------------------------
\* Writing the residue map (MirrorSim.py:229-235)
\* ---------------------------------------------------------------------------

\* the resampler was called with a resFile path and the call is over
WriteCallOver ==
    /\ pc = "idle"
    /\ call.op = "__gridSampInMnInZemax"
    /\ call.resFile # None

\* the file holds the header and all (nx+4)*(ny+4) node lines of this call
HoldsCompleteMap ==
    /\ disk.exists
    /\ Len(disk.lines) = 1 + NUM_X_PIXELS(call.nx) * NUM_Y_PIXELS(call.ny)
    /\ disk.lines = content

\* C11: after any call of the grid resampler with a resFile path, completed or
\* failed, the file at that path holds the complete map (header plus all
\* (nx+4)*(ny+4) node lines) or is exactly as it was before the call; no
\* truncated or partially written file is left behind.
C11_WriteAllOrNothing ==
    WriteCallOver => (HoldsCompleteMap \/ disk = call.before)


\* ---------------------------------------------------------------------------
\* Node coordinates (MirrorSim.py:156-184)
\* ---------------------------------------------------------------------------

\* pitch_axis = 2*outerRadius*extF_axis/(inflated_count-1), with
\* extF_axis = (inflated_count-1)/(n-1) and inflated_count = n+4
Pitch(n) == RDiv(RMul(RMul(R(2), call.outerRinMm), Rat(n + 3, n - 1)), R(n + 3))
\* the n+4 values -(n+3)*pitch/2 + k*pitch, k = 0..n+3
Centred(n) ==
    {RAdd(RMul(Rat(-(n + 3), 2), Pitch(n)), RMul(R(k), Pitch(n))) : k \in 0..(n + 3)}
\* the x- and y-coordinates at which the finished loops evaluated nodes
EmittedX == {NodeX(call, i) : i \in 1..ii}
EmittedY == {NodeY(call, j) : j \in 1..jj}

\* C12: for all nx, ny >= 2, equal or not, the x-coordinates of the emitted
\* nodes are exactly the nx+4 values -(nx+3)*pitch_x/2 + k*pitch_x, k = 0..nx+3,
\* and the y-coordinates exactly the ny+4 values -(ny+3)*pitch_y/2 + k*pitch_y,
\* k = 0..ny+3 (up to sign inversion): no node is evaluated off these values
\* and a returned map has covered all of them.
C12_OriginCentresGrid ==
    (GridCalled /\ call.nx >= 2 /\ call.ny >= 2) =>
        /\ pc = "grid_loop" =>
            /\ NodeX(call, ii) \in Centred(call.nx)
            /\ RNeg(NodeY(call, jj)) \in Centred(call.ny)
        /\ (pc = "idle" /\ ret.kind = "ok") =>
            /\ EmittedX = Centred(call.nx)
            /\ {RNeg(y) : y \in EmittedY} = Centred(call.ny)


\* ---------------------------------------------------------------------------
\* Order of the node lines (MirrorSim.py:168-190)
\* ---------------------------------------------------------------------------

\* half of the inflated extent of an axis of n nodes: (n+3)*pitch/2
HalfExtent(n) == RMul(Rat(n + 3, 2), Pitch(n))
\* x = minx + (i-1)*pitch_x and y = -(miny + (j-1)*pitch_y), minx and miny
\* being minus the half extents
LineX(i) == RAdd(RNeg(HalfExtent(call.nx)), RMul(R(i - 1), Pitch(call.nx)))
LineY(j) == RNeg(RAdd(RNeg(HalfExtent(call.ny)), RMul(R(j - 1), Pitch(call.ny))))
\* the value the claim puts on the line of outer index j and inner index i
LineValue(j, i) ==
    IF OutsideAnnulus(call, LineX(i), LineY(j))
        THEN Zero4
        ELSE Fitted(call, LineX(i), LineY(j))

\* C13: the outer loop index j selects the y-coordinate, the inner index i the
\* x-coordinate, and y is inverted: the node written on line (j, i) is
\* evaluated at x = minx + (i-1)*pitch_x, y = -(miny + (j-1)*pitch_y); within
\* one outer iteration x strictly increases from the most negative value, and
\* across outer iterations y strictly decreases from +half-extent to
\* -half-extent.
C13_LoopOrderAndInversion ==
    (GridCalled /\ call.nx >= 2 /\ call.ny >= 2 /\ pc = "idle" /\ ret.kind = "ok") =>
        /\ Len(content) = 1 + jj * ii
        /\ \A j \in 1..jj : \A i \in 1..ii :
            content[1 + (j - 1) * ii + i] = LineValue(j, i)
        /\ NodeX(call, 1) = RNeg(HalfExtent(call.nx))
        /\ \A i \in 1..(ii - 1) : RLt(NodeX(call, i), NodeX(call, i + 1))
        /\ NodeY(call, 1) = HalfExtent(call.ny)
        /\ \A j \in 1..(jj - 1) : RLt(NodeY(call, j + 1), NodeY(call, j))
        /\ NodeY(call, jj) = RNeg(HalfExtent(call.ny))


\* ---------------------------------------------------------------------------
\* The interpolation branch of getLUTforce (MirrorSim.py:97-123)
\* ---------------------------------------------------------------------------

\* getLUTforce took its interpolation branch: strictly increasing ruler of
\* length n >= 2, query strictly between its minimum and maximum
InterpolationBranch ==
    /\ LUTCalled
    /\ Len(TheRuler) >= 2
    /\ StrictlyIncreasing(TheRuler)
    /\ StrictlyInside(TheRuler, TheQuery)
\* p1, w1, w2 as the call computed them
TheP1 == LowerIndex(TheRuler, TheQuery)
TheW1 == Weight1(TheRuler, Diff(TheRuler), TheQuery)
TheW2 == Weight2(TheRuler, Diff(TheRuler), TheQuery)
Between(lo, v, hi) == (RLe(lo, v) /\ RLe(v, hi)) \/ (RLe(hi, v) /\ RLe(v, lo))

\* C14: in the interpolation branch the lower bracket index p1 lies in 0..n-2,
\* so p2 = p1+1 is a valid column index; the weights satisfy w1 + w2 = 1,
\* 0 <= w2 < 1 and 0 < w1 <= 1; and each returned force lies between the two
\* bracketing column values of its actuator row.
C14_BracketAndWeights ==
    InterpolationBranch =>
        /\ TheP1 \in 0..(Len(TheRuler) - 2)
        /\ TheP1 + 1 \in 0..(NCols(files["LUT"]) - 1)
        /\ RAdd(TheW1, TheW2) = R(1)
        /\ RLe(R(0), TheW2) /\ RLt(TheW2, R(1))
        /\ RLt(R(0), TheW1) /\ RLe(TheW1, R(1))
        /\ ret.kind = "ok"
        /\ Len(ret.value) = Len(files["LUT"]) - 1
        /\ \A a \in 1..Len(ret.value) :
            Between(TheColumn(TheP1 + 1)[a], ret.value[a], TheColumn(TheP1 + 2)[a])

\* C14 witness: a query strictly inside the last interval of a three-column
\* table, off its nodes, was answered with a force strictly between two
\* differing column values
C14_Witness ==
    /\ InterpolationBranch
    /\ Len(TheRuler) = 3
    /\ TheP1 = 1
    /\ RLt(R(0), TheW2)
    /\ ret.kind = "ok"
    /\ \E a \in 1..Len(ret.value) :
        /\ TheColumn(2)[a] # TheColumn(3)[a]
        /\ ret.value[a] # TheColumn(2)[a]
        /\ ret.value[a] # TheColumn(3)[a]


------------------------------------------------------------------------------
(* Claims about the whole object, checked under Spec *)

\* the operations that read a data file through getMirrorData
Readers == {"getMirrorData", "getLUTforce", "getActForce", "getPrintthz", "getTempCorr",
            "getMirrorResInMmInZemax", "writeMirZkAndGridResInZemax"}
\* a step leaves the stored surface, or is setSurfAlongZ storing its argument
SurfFrame ==
    surf' # surf => (call'.op = "setSurfAlongZ" /\ surf' = Array(call'.surfAlongZinUm))
\* a step leaves the stored directory, or is setMirrorDataDir storing its argument
DirFrame ==
    mirrorDataDir' # mirrorDataDir =>
        (call'.op = "setMirrorDataDir" /\ mirrorDataDir' = call'.mirrorDataDir)
\* the fit that returned was handed the stored surface (in Zemax coordinates)
FitUsesStoredSurf ==
    (call.op = "getMirrorResInMmInZemax" /\ pc = "idle" /\ ret.kind = "ok") =>
        /\ ~surf.none
        /\ ret.value.zcInMm.zkOf.surf = [p \in 1..Len(surf.z) |-> RNeg(surf.z[p])]
        /\ ret.value.resInMm.residueOf = [p \in 1..Len(surf.z) |-> RNeg(surf.z[p])]
\* the read of the last call went to the stored directory
ReadUsesStoredDir == call.op \in Readers => call.path[1] = mirrorDataDir

\* C15: over any sequence of operations only setSurfAlongZ changes the stored
\* surface and only setMirrorDataDir the stored data directory; every other
\* operation leaves surf, mirrorDataDir and the two radii unchanged, so a fit
\* uses the surface of the most recent setSurfAlongZ and a read the directory
\* of the most recent setMirrorDataDir.
C15_FrameOfTheObject ==
    /\ [][SurfFrame /\ DirFrame /\ RiInM' = RiInM /\ RinM' = RinM]_vars
    /\ [](FitUsesStoredSurf /\ ReadUsesStoredDir)

\* C15 witness: after the directory and the surface were set, a fit returned
\* its residue with the object's four fields as the setters left them
C15_Witness ==
    /\ call.op = "getMirrorResInMmInZemax" /\ pc = "idle" /\ ret.kind = "ok"
    /\ mirrorDataDir = "M2" /\ call.path[1] = "M2"
    /\ ~surf.none /\ Len(surf.z) = NumSamplePoints
    /\ ret.value.zcInMm.zkOf.surf = [p \in 1..Len(surf.z) |-> RNeg(surf.z[p])]
    /\ RiInM = Rat(9, 10) /\ RinM = Rat(171, 100)

=============================================================================
